---- MODULE Spec2Model ----
(***************************************************************************)
(* Model of the undirected Graph class of src/graph.py: an adjacency       *)
(* dictionary (a defaultdict of sets, insertion ordered), the all_nodes    *)
(* list derived from its keys, the mutators add_edge / add_node, the       *)
(* queries (membership, neighbours, equality, bfs, distance) and the       *)
(* iterator protocol (__iter__ / __next__).                                *)
(***************************************************************************)
EXTENDS Integers, Sequences, FiniteSets, TLC

\* Node ids are drawn from 1..MaxNode.
MaxNode == 3
\* Longest edge list handed to the constructor.
MaxInitEdges == 2
\* Most distinct undirected edges (self-loops included) the graph may hold.
MaxEdges == 3

VARIABLES
    adjacency_dict, \* self.adjacency_dict: sequence of <<key, neighbour set>> in key insertion order
    all_nodes,      \* self.all_nodes: list of node ids
    result,         \* the call that just completed: [op, args, ret, err]
    iterating,      \* TRUE while a caller's `for node in graph` loop is running
    yielded         \* what that loop has received so far

vars == <<adjacency_dict, all_nodes, result, iterating, yielded>>

NodeIds == 1..MaxNode
EdgeArgs == NodeIds \X NodeIds
EdgeLists == UNION {[1..n -> EdgeArgs] : n \in 0..MaxInitEdges}

NoCall == [op |-> "idle", args |-> <<>>, ret |-> "None", err |-> "none"]
Call(op, args, ret, err) == [op |-> op, args |-> args, ret |-> ret, err |-> err]

(***************************************************************************)
(* Python containers.                                                      *)
(***************************************************************************)

\* dict.keys() as a set and in insertion order
dict_keys(d) == {d[i][1] : i \in DOMAIN d}
dict_key_list(d) == [i \in DOMAIN d |-> d[i][1]]
dict_index(d, k) == CHOOSE i \in DOMAIN d : d[i][1] = k
\* d[k] for a key that is present
dict_get(d, k) == d[dict_index(d, k)][2]

\* defaultdict(set).__getitem__: a missing key is inserted with an empty set;
\* the dictionary after the access
defaultdict_getitem(d, k) ==
    IF k \in dict_keys(d) THEN d ELSE Append(d, <<k, {}>>)

\* d[k] = v: an existing key keeps its position
dict_setitem(d, k, v) ==
    IF k \in dict_keys(d)
    THEN [d EXCEPT ![dict_index(d, k)] = <<k, v>>]
    ELSE Append(d, <<k, v>>)

\* d[k].add(v) on the defaultdict
dict_set_add(d, k, v) ==
    LET d1 == defaultdict_getitem(d, k)
    IN  [d1 EXCEPT ![dict_index(d1, k)] = <<k, d1[dict_index(d1, k)][2] \cup {v}>>]

\* dict == dict: same keys, same value per key, whatever the insertion order
dict_eq(d1, d2) == {d1[i] : i \in DOMAIN d1} = {d2[i] : i \in DOMAIN d2}

Min(S) == CHOOSE x \in S : \A y \in S : x <= y

\* Iteration over a set of small non-negative ints: CPython walks the hash
\* table in slot order, which for these ids is ascending order.
RECURSIVE set_iter(_)
set_iter(S) ==
    IF S = {} THEN <<>> ELSE <<Min(S)>> \o set_iter(S \ {Min(S)})

(***************************************************************************)
(* The Graph object and its methods, as functions of the object.           *)
(***************************************************************************)

Self == [adjacency_dict |-> adjacency_dict, all_nodes |-> all_nodes]

Ret(self, ret, err) == [self |-> self, ret |-> ret, err |-> err]

update_all_nodes(self) ==
    [self EXCEPT !.all_nodes = dict_key_list(self.adjacency_dict)]

contains(self, node) == node \in dict_keys(self.adjacency_dict)

is_edge_in_graph_unguarded(self, edge) ==
    LET d1 == defaultdict_getitem(self.adjacency_dict, edge[1])
    IN  Ret([self EXCEPT !.adjacency_dict = d1], edge[2] \in dict_get(d1, edge[1]), "none")

is_edge_in_graph(self, edge) ==
    IF edge[1] \in dict_keys(self.adjacency_dict)
    THEN LET d1 == defaultdict_getitem(self.adjacency_dict, edge[1])
         IN  Ret([self EXCEPT !.adjacency_dict = d1],
                 edge[2] \in dict_get(d1, edge[1]), "none")
    ELSE Ret(self, FALSE, "none")

add_edge_one_direction(self, edge) ==
    LET chk == is_edge_in_graph(self, edge)
    IN  IF chk.ret THEN chk.self
        ELSE update_all_nodes(
                [chk.self EXCEPT !.adjacency_dict =
                    dict_set_add(chk.self.adjacency_dict, edge[1], edge[2])])

add_edge(self, edge) ==
    LET chk == is_edge_in_graph(self, edge)
    IN  IF chk.ret THEN chk.self
        ELSE LET d1 == dict_set_add(chk.self.adjacency_dict, edge[1], edge[2])
                 d2 == dict_set_add(d1, edge[2], edge[1])
             IN  update_all_nodes([chk.self EXCEPT !.adjacency_dict = d2])

add_node_unchecked(self, new_node) ==
    update_all_nodes(
        [self EXCEPT !.adjacency_dict = dict_setitem(self.adjacency_dict, new_node, {})])

add_node(self, new_node) ==
    IF contains(self, new_node) THEN self
    ELSE update_all_nodes(
            [self EXCEPT !.adjacency_dict =
                dict_setitem(self.adjacency_dict, new_node, {})])

RECURSIVE init_for_edges(_, _, _)
init_for_edges(self, edges, i) ==
    IF i > Len(edges) THEN self
    ELSE init_for_edges(add_edge(self, edges[i]), edges, i + 1)

\* Graph(edges)
Construct(edges) ==
    LET empty == [adjacency_dict |-> <<>>, all_nodes |-> <<>>]
    IN  IF edges = <<>> THEN empty
        ELSE update_all_nodes(init_for_edges(empty, edges, 1))

(***************************************************************************)
(* bfs: the loop state is the local variables of Graph.bfs, plus the       *)
(* dictionary, which every self.adjacency_dict[...] access goes through.   *)
(***************************************************************************)

\* for current_node_neighbor in self.adjacency_dict[current_node]: ...
RECURSIVE bfs_for_neighbors(_, _, _)
bfs_for_neighbors(st, neighbors, i) ==
    IF i > Len(neighbors) THEN st
    ELSE LET current_node_neighbor == neighbors[i]
         IN  IF current_node_neighbor \in st.seen_nodes
             THEN bfs_for_neighbors(st, neighbors, i + 1)
             ELSE bfs_for_neighbors(
                    [st EXCEPT
                        !.seen_nodes = @ \cup {current_node_neighbor},
                        !.distance_pairs = Append(@, <<current_node_neighbor, st.distance>>),
                        !.queue = Append(@, current_node_neighbor)],
                    neighbors, i + 1)

\* for _ in range(len(queue)): current_node = queue.popleft(); ...
RECURSIVE bfs_for_range(_, _)
bfs_for_range(st, n) ==
    IF n = 0 THEN st
    ELSE LET current_node == Head(st.queue)
             d1 == defaultdict_getitem(st.adjacency_dict, current_node)
             st1 == [st EXCEPT !.queue = Tail(@), !.adjacency_dict = d1]
         IN  bfs_for_range(
                bfs_for_neighbors(st1, set_iter(dict_get(d1, current_node)), 1),
                n - 1)

RECURSIVE bfs_while_no_increment(_)
bfs_while_no_increment(st) ==
    IF st.queue = <<>> THEN st
    ELSE bfs_while_no_increment(bfs_for_range(st, Len(st.queue)))

\* while queue: distance += 1; for ...
RECURSIVE bfs_while(_)
bfs_while(st) ==
    IF st.queue = <<>> THEN st
    ELSE LET st1 == [st EXCEPT !.distance = @ + 1]
         IN  bfs_while(bfs_for_range(st1, Len(st1.queue)))

\* [(node, -1) for node in self.all_nodes if node not in seen_nodes]
RECURSIVE unseen_pairs(_, _, _)
unseen_pairs(nodes, seen_nodes, i) ==
    IF i > Len(nodes) THEN <<>>
    ELSE (IF nodes[i] \notin seen_nodes THEN << <<nodes[i], -1>> >> ELSE <<>>)
            \o unseen_pairs(nodes, seen_nodes, i + 1)

bfs(self, start_node) ==
    IF ~contains(self, start_node) THEN Ret(self, "None", "ValueError")
    ELSE LET st == bfs_while([adjacency_dict |-> self.adjacency_dict,
                              distance_pairs |-> <<>>,
                              distance |-> 0,
                              queue |-> <<start_node>>,
                              seen_nodes |-> {start_node}])
         IN  Ret([self EXCEPT !.adjacency_dict = st.adjacency_dict],
                 st.distance_pairs \o unseen_pairs(self.all_nodes, st.seen_nodes, 1),
                 "none")

\* [pair for pair in pairs if pair[0] == node]
RECURSIVE pairs_of(_, _, _)
pairs_of(pairs, node, i) ==
    IF i > Len(pairs) THEN <<>>
    ELSE (IF pairs[i][1] = node THEN <<pairs[i]>> ELSE <<>>) \o pairs_of(pairs, node, i + 1)

distance(self, node1, node2) ==
    IF ~contains(self, node1) \/ ~contains(self, node2)
    THEN Ret(self, "None", "ValueError")
    ELSE IF node1 = node2 THEN Ret(self, 0, "none")
    ELSE LET b == bfs(self, node1)
             hits == pairs_of(b.ret, node2, 1)
         IN  IF hits = <<>>
             THEN Ret(b.self, "None", "IndexError")      \* [...][0] on an empty list
             ELSE Ret(b.self, hits[1][2], "none")

getitem(self, node) ==
    IF ~contains(self, node) THEN Ret(self, "None", "ValueError")
    ELSE LET d1 == defaultdict_getitem(self.adjacency_dict, node)
         IN  Ret([self EXCEPT !.adjacency_dict = d1], dict_get(d1, node), "none")

\* __next__
next(self) ==
    IF Len(self.all_nodes) > 0
    THEN Ret([self EXCEPT !.all_nodes = Tail(@)], Head(self.all_nodes), "none")
    ELSE Ret(self, "None", "StopIteration")

\* __eq__
eq(self, other) == dict_eq(self.adjacency_dict, other.adjacency_dict)

(***************************************************************************)
(* The state machine: one action per method call of a single caller.  A    *)
(* completed call leaves its outcome in `result` until the caller takes it *)
(* (Return).                                                               *)
(***************************************************************************)

\* number of distinct undirected edges, self-loops included
EdgeCount(d) ==
    Cardinality(UNION {{{d[i][1], b} : b \in d[i][2]} : i \in DOMAIN d})

Idle == result.op = "idle" /\ ~iterating

SetSelf(self) ==
    /\ adjacency_dict' = self.adjacency_dict
    /\ all_nodes' = self.all_nodes

Init ==
    \E edges \in EdgeLists :
        /\ adjacency_dict = Construct(edges).adjacency_dict
        /\ all_nodes = Construct(edges).all_nodes
        /\ result = NoCall
        /\ iterating = FALSE
        /\ yielded = <<>>

AddEdge(edge) ==
    /\ Idle
    /\ \/ is_edge_in_graph(Self, edge).ret
       \/ is_edge_in_graph(Self, <<edge[2], edge[1]>>).ret
       \/ EdgeCount(adjacency_dict) < MaxEdges
    /\ SetSelf(add_edge(Self, edge))
    /\ result' = Call("add_edge", edge, "None", "none")
    /\ UNCHANGED <<iterating, yielded>>

AddNode(new_node) ==
    /\ Idle
    /\ SetSelf(add_node(Self, new_node))
    /\ result' = Call("add_node", <<new_node>>, "None", "none")
    /\ UNCHANGED <<iterating, yielded>>

Query(op, args, r) ==
    /\ Idle
    /\ SetSelf(r.self)
    /\ result' = Call(op, args, r.ret, r.err)
    /\ UNCHANGED <<iterating, yielded>>

Contains(node) == Query("contains", <<node>>, Ret(Self, contains(Self, node), "none"))

IsEdgeInGraph(edge) == Query("is_edge_in_graph", edge, is_edge_in_graph(Self, edge))

GetItem(node) == Query("getitem", <<node>>, getitem(Self, node))

Bfs(start_node) == Query("bfs", <<start_node>>, bfs(Self, start_node))

Distance(node1, node2) == Query("distance", <<node1, node2>>, distance(Self, node1, node2))

\* graph == Graph(edges), for the graphs built from at most one edge
OtherEdgeLists == {<<>>} \cup {<<edge>> : edge \in EdgeArgs}
Eq(edges) ==
    Query("eq", IF edges = <<>> THEN <<>> ELSE edges[1],
          Ret(Self, eq(Self, Construct(edges)), "none"))

\* graph == a copy of it whose keys were inserted in the opposite order
Reverse(s) == [i \in DOMAIN s |-> s[Len(s) + 1 - i]]
EqCopy ==
    Query("eq_copy", <<>>,
          Ret(Self, eq(Self, [Self EXCEPT !.adjacency_dict = Reverse(@)]), "none"))

\* next(graph) called directly
CallNext ==
    /\ Idle
    /\ SetSelf(next(Self).self)
    /\ result' = Call("next", <<>>, next(Self).ret, next(Self).err)
    /\ UNCHANGED <<iterating, yielded>>

\* `for node in graph:` starts: __iter__ returns the graph itself
Iter ==
    /\ Idle
    /\ iterating' = TRUE
    /\ yielded' = <<>>
    /\ UNCHANGED <<adjacency_dict, all_nodes, result>>

\* one round of the loop: __next__ yields a node, or ends the loop
ForNext ==
    /\ iterating
    /\ SetSelf(next(Self).self)
    /\ IF next(Self).err = "none"
       THEN /\ yielded' = Append(yielded, next(Self).ret)
            /\ UNCHANGED <<iterating, result>>
       ELSE /\ result' = Call("for", <<>>, yielded, next(Self).err)
            /\ iterating' = FALSE
            /\ yielded' = <<>>

Return ==
    /\ result.op # "idle"
    /\ result' = NoCall
    /\ UNCHANGED <<adjacency_dict, all_nodes, iterating, yielded>>

Next ==
    \/ \E edge \in EdgeArgs : AddEdge(edge)
    \/ \E new_node \in NodeIds : AddNode(new_node)
    \/ \E node \in NodeIds : Contains(node)
    \/ \E edge \in EdgeArgs : IsEdgeInGraph(edge)
    \/ \E node \in NodeIds : GetItem(node)
    \/ \E start_node \in NodeIds : Bfs(start_node)
    \/ \E node1, node2 \in NodeIds : Distance(node1, node2)
    \/ \E edges \in OtherEdgeLists : Eq(edges)
    \/ EqCopy
    \/ CallNext
    \/ Iter
    \/ ForNext
    \/ Return

Spec == Init /\ [][Next]_vars

(***************************************************************************)
(* Reference notions the properties are stated with.                       *)
(***************************************************************************)

Keys == dict_keys(adjacency_dict)

\* a and b are joined by an edge of the undirected graph
Adjacent(d, a, b) ==
    \/ a \in dict_keys(d) /\ b \in dict_get(d, a)
    \/ b \in dict_keys(d) /\ a \in dict_get(d, b)

\* the nodes some path of at most k edges joins to a
RECURSIVE Within(_, _, _)
Within(d, a, k) ==
    IF k = 0 THEN {a}
    ELSE LET W == Within(d, a, k - 1)
         IN  W \cup {b \in dict_keys(d) : \E x \in W : Adjacent(d, x, b)}

\* length in edges of a shortest path from a to b, -1 when there is none
ShortestPath(d, a, b) ==
    IF b \notin Within(d, a, Len(d)) THEN -1
    ELSE Min({k \in 0..Len(d) : b \in Within(d, a, k)})

Entries(pairs, node) == {i \in DOMAIN pairs : pairs[i][1] = node}

(***************************************************************************)
(* Properties.                                                             *)
(***************************************************************************)

\* C1: bfs(start) for a start node of the graph has no entry for start and
\* exactly one (node, distance) entry for every other node of the graph,
\* every distance being -1 or non-negative.
C1_BfsOneEntryPerOtherNode ==
    (result.op = "bfs" /\ result.err = "none") =>
        /\ \A node \in Keys :
                Cardinality(Entries(result.ret, node))
                    = (IF node = result.args[1] THEN 0 ELSE 1)
        /\ \A i \in DOMAIN result.ret :
                result.ret[i][1] \in Keys /\ result.ret[i][2] >= -1

\* C2: the distance bfs(start) reports for a node is the length of a
\* shortest path from start to it, and -1 exactly when no path exists; on a
\* graph whose node list has not been consumed by iteration every node other
\* than start is reported.
C2_BfsShortestPaths ==
    (result.op = "bfs" /\ result.err = "none") =>
        /\ \A i \in DOMAIN result.ret :
                result.ret[i][2]
                    = ShortestPath(adjacency_dict, result.args[1], result.ret[i][1])
        /\ all_nodes = dict_key_list(adjacency_dict) =>
                \A node \in Keys \ {result.args[1]} : Entries(result.ret, node) # {}

\* C2 witness: bfs from a node with a self-loop reported a node two edges away.
C2_Witness ==
    /\ result.op = "bfs" /\ result.err = "none"
    /\ result.args[1] \in dict_get(adjacency_dict, result.args[1])
    /\ \E i \in DOMAIN result.ret : result.ret[i][2] = 2

\* C3: distance(a, b) for two nodes of the graph returns 0 when a = b and
\* otherwise the shortest path length from a to b, -1 when b is unreachable.
C3_DistanceValue ==
    (result.op = "distance" /\ result.args[1] \in Keys /\ result.args[2] \in Keys) =>
        /\ result.err = "none"
        /\ result.ret = (IF result.args[1] = result.args[2] THEN 0
                         ELSE ShortestPath(adjacency_dict, result.args[1], result.args[2]))

\* C4: getitem, bfs and distance raise ValueError when a given node id is
\* absent from the graph and otherwise complete without any error.
C4_OnlyNodeNotFound ==
    result.op \in {"getitem", "bfs", "distance"} =>
        result.err = (IF \E i \in DOMAIN result.args : result.args[i] \notin Keys
                      THEN "ValueError" ELSE "none")

\* C5: a `for node in graph` loop receives every node of the graph exactly
\* once, in key insertion order, whatever was iterated before it.
C5_LoopYieldsAllNodes ==
    result.op = "for" => result.ret = dict_key_list(adjacency_dict)

\* C6: b is a neighbour of a if and only if a is a neighbour of b: every
\* neighbour b listed under a key a is itself a key that lists a.
C6_AdjacencySymmetric ==
    \A i \in DOMAIN adjacency_dict :
        \A b \in adjacency_dict[i][2] :
            \E j \in DOMAIN adjacency_dict :
                adjacency_dict[j][1] = b /\ adjacency_dict[i][1] \in adjacency_dict[j][2]

\* C6 witness: add_edge has just joined two distinct nodes, in a graph that
\* also holds a self-loop.
C6_Witness ==
    /\ result.op = "add_edge"
    /\ result.args[1] # result.args[2]
    /\ result.args[2] \in dict_get(adjacency_dict, result.args[1])
    /\ \E node \in Keys : node \in dict_get(adjacency_dict, node)

\* C7: add_edge of an edge the graph already has, given in either
\* orientation, and add_node of a node it already has, leave the adjacency
\* dictionary equal to what it was; the node keeps its neighbour set.
C7_AddIsIdempotent ==
    [][ /\ (result'.op = "add_edge" /\ result.op = "idle"
                /\ Adjacent(adjacency_dict, result'.args[1], result'.args[2]))
            => dict_eq(adjacency_dict', adjacency_dict)
        /\ (result'.op = "add_node" /\ result.op = "idle" /\ result'.args[1] \in Keys)
            => /\ dict_eq(adjacency_dict', adjacency_dict)
               /\ dict_get(adjacency_dict', result'.args[1])
                    = dict_get(adjacency_dict, result'.args[1])
      ]_vars

\* C7 witness: add_edge((2, 1)) has returned on the graph built from (1, 2)
\* without refreshing the consumed node list, that is, as a no-op.
C7_Witness ==
    /\ result.op = "add_edge" /\ result.args = <<2, 1>>
    /\ adjacency_dict = << <<1, {2}>>, <<2, {1}>> >>
    /\ all_nodes = <<>>

\* C8: distance(a, b) and distance(b, a) have the same outcome for any two
\* nodes of the graph.
C8_DistanceSymmetric ==
    (result.op = "distance" /\ result.args[1] \in Keys /\ result.args[2] \in Keys) =>
        LET back == distance(Self, result.args[2], result.args[1])
        IN  /\ back.err = result.err
            /\ result.err = "none" => back.ret = result.ret

\* C9: all_nodes holds exactly the keys of the adjacency dictionary, each once.
C9_AllNodesAreKeys ==
    /\ Len(all_nodes) = Len(adjacency_dict)
    /\ {all_nodes[i] : i \in DOMAIN all_nodes} = Keys

\* C10: no query (a step that completes a call of one of the query methods)
\* adds a key or a neighbour to the adjacency dictionary.
QueryOps ==
    {"contains", "is_edge_in_graph", "getitem", "bfs", "distance", "eq", "eq_copy"}

C10_QueriesKeepAdjacency ==
    [][(result'.op \in QueryOps /\ result.op = "idle")
            => adjacency_dict' = adjacency_dict]_vars

\* C10 witness: an edge query about a node id that is absent from the graph
\* has returned, and the id is still absent.
C10_Witness ==
    /\ result.op = "is_edge_in_graph"
    /\ result.args[1] \notin Keys
    /\ Keys # {}

====
